---- MODULE Spec2Model ----
(***************************************************************************)
(* Model of cycliq-incident-detector.                                      *)
(*                                                                         *)
(*   src/dashcam-detect.py, src/detect.py : find_triple_beeps, the scan of *)
(*       the ordered peak times for two consecutive gaps inside a window.  *)
(*   src/bpy-load-videos.py : blender_main, add_incident_to_timeline and   *)
(*       insert_movie, which put one clip (a movie strip and a sound       *)
(*       strip) per incident on the sequencer's timeline, plus a clip of   *)
(*       the preceding / following file when the context window overruns.  *)
(*                                                                         *)
(* Two specifications share the variables: SpecDetect runs the detection   *)
(* function on bounded inputs, Spec runs one placement pass of             *)
(* blender_main over a bounded catalog.                                    *)
(*                                                                         *)
(* Numbers.  The source computes with Python floats and truncates with     *)
(* int().  Here every time and every frame count is a fixed-point number   *)
(* with Sub steps per unit: a time is a count of 1/Sub seconds, a frame    *)
(* quantity is a count of 1/Sub frames, fps is a whole number of frames    *)
(* per second, so seconds * fps is exact.  int() is PyInt below: it        *)
(* truncates toward zero to a whole number of frames.  Floating-point      *)
(* rounding error is not modelled.                                         *)
(***************************************************************************)
EXTENDS Integers, Sequences, FiniteSets, TLC

VARIABLES
    \* --- detection (find_triple_beeps) ---
    peak_times,      \* the ordered peak times, in ticks of 10 ms
    td_min, td_max,  \* the gap window, in ticks of 10 ms
    triple_beeps,    \* the list find_triple_beeps returns
    dpc,             \* "start" | "done"; "idle" in a placement run
    \* --- placement (bpy-load-videos.py) ---
    context_before,  \* args.context_before, in 1/Sub seconds
    context_after,   \* args.context_after, in 1/Sub seconds
    fps,             \* frames per second (whole)
    incident_times_by_video,  \* the loaded JSON: file key -> list of timestamps
    native,          \* file key -> native duration in frames, 0 = not on disk
    i_incident,      \* blender_main's counter
    sequences,       \* scene.sequence_editor.sequences: the strips, in order
    frame_end,       \* scene.frame_end in frames, Unset before it is assigned
    pc               \* "start" | "loop" | "returned" | "done" | "raised";
                     \* "idle" in a detection run

dvars == <<peak_times, td_min, td_max, triple_beeps, dpc>>
pvars == <<context_before, context_after, fps, incident_times_by_video,
           native, i_incident, sequences, frame_end, pc>>
vars == <<peak_times, td_min, td_max, triple_beeps, dpc,
          context_before, context_after, fps, incident_times_by_video,
          native, i_incident, sequences, frame_end, pc>>

-----------------------------------------------------------------------------
(* Bounds of the model *)

\* longest peak list drawn for find_triple_beeps
MaxPulses == 5
\* latest peak time drawn, in ticks
MaxPeakTime == 7
\* widest gap window bound drawn, in ticks
MaxGap == 3

-----------------------------------------------------------------------------
(* Detection: find_triple_beeps *)

\* np.diff(peak_times): element i (1-based) is peak_times[i+1] - peak_times[i]
diff(s) == [i \in 1..(IF Len(s) = 0 THEN 0 ELSE Len(s) - 1) |-> s[i + 1] - s[i]]

\* The loop of find_triple_beeps over enumerate(peak_time_diffs), from the
\* 0-based index i to the end.  Python's peak_time_diffs[i] is d[i + 1] and
\* peak_times[i] is pt[i + 1] in 1-based sequences.
RECURSIVE triple_beeps_from(_, _, _, _, _)
triple_beeps_from(pt, d, lo, hi, i) ==
    IF i >= Len(d) THEN <<>>
    ELSE IF i = 0 THEN triple_beeps_from(pt, d, lo, hi, i + 1)
    ELSE IF /\ lo <= d[i + 1] /\ d[i + 1] <= hi
            /\ lo <= d[i] /\ d[i] <= hi
         THEN <<pt[i + 1]>> \o triple_beeps_from(pt, d, lo, hi, i + 1)
         ELSE triple_beeps_from(pt, d, lo, hi, i + 1)

\* faulty variant: appends the time of the last pulse of the triplet, peak_times[i+1]
RECURSIVE triple_beeps_from_last(_, _, _, _, _)
triple_beeps_from_last(pt, d, lo, hi, i) ==
    IF i >= Len(d) THEN <<>>
    ELSE IF i = 0 THEN triple_beeps_from_last(pt, d, lo, hi, i + 1)
    ELSE IF /\ lo <= d[i + 1] /\ d[i + 1] <= hi
            /\ lo <= d[i] /\ d[i] <= hi
         THEN <<pt[i + 2]>> \o triple_beeps_from_last(pt, d, lo, hi, i + 1)
         ELSE triple_beeps_from_last(pt, d, lo, hi, i + 1)

\* faulty variant: the upper end of the window is exclusive
RECURSIVE triple_beeps_from_strict(_, _, _, _, _)
triple_beeps_from_strict(pt, d, lo, hi, i) ==
    IF i >= Len(d) THEN <<>>
    ELSE IF i = 0 THEN triple_beeps_from_strict(pt, d, lo, hi, i + 1)
    ELSE IF /\ lo <= d[i + 1] /\ d[i + 1] < hi
            /\ lo <= d[i] /\ d[i] < hi
         THEN <<pt[i + 1]>> \o triple_beeps_from_strict(pt, d, lo, hi, i + 1)
         ELSE triple_beeps_from_strict(pt, d, lo, hi, i + 1)

find_triple_beeps_last(pt, lo, hi) == triple_beeps_from_last(pt, diff(pt), lo, hi, 0)

find_triple_beeps_strict(pt, lo, hi) == triple_beeps_from_strict(pt, diff(pt), lo, hi, 0)

find_triple_beeps(pt, lo, hi) == triple_beeps_from(pt, diff(pt), lo, hi, 0)

\* the call in process_video: td_min=60e-3, td_max=120e-3, in ticks of 10 ms
TdMinDefault == 6
TdMaxDefault == 12

\* the peak list [0, 0.08, 0.16, 1.0] s, in ticks of 10 ms
ExamplePeaks == <<0, 8, 16, 100>>

\* strictly ascending sequences over 0..MaxPeakTime of length <= MaxPulses,
\* one per subset of the times
RECURSIVE Ascending(_)
Ascending(S) ==
    IF S = {} THEN <<>>
    ELSE LET m == CHOOSE x \in S : \A y \in S : x <= y
         IN <<m>> \o Ascending(S \ {m})

PeakLists ==
    {Ascending(S) : S \in {T \in SUBSET (0..MaxPeakTime) : Cardinality(T) <= MaxPulses}}


-----------------------------------------------------------------------------
(* Placement: fixed-point arithmetic and files *)

\* fixed-point steps per second and per frame
Sub == 2
\* most incidents in one catalog
MaxIncidents == 3
\* longest native duration drawn in the small-scale runs, in frames
MaxDuration == 2
\* largest context_before / context_after drawn in the small-scale runs,
\* in 1/Sub seconds
MaxContext == 3

\* Python's int() on a float: truncation toward zero.  The argument and the
\* result are counts of 1/Sub frames; the result is a whole number of frames.
PyInt(x) == IF x >= 0 THEN (x \div Sub) * Sub ELSE 0 - (((0 - x) \div Sub) * Sub)

Max(a, b) == IF a >= b THEN a ELSE b

Min(a, b) == IF a <= b THEN a ELSE b

\* File keys.  Key BadFile is a file whose stem has no '_' ("BAD.MP4"); key
\* k in CyqFiles is "CYQ_000k.MP4".  Integer order of the keys is the
\* lexicographic order of these names, which sorted() uses.
BadFile == 0
CyqFiles == 1..3
Files == {BadFile} \cup CyqFiles

\* pathlib.Path(video_filename).stem.split('_')
StemParts(k) == IF k = BadFile THEN <<"BAD">> ELSE <<"CYQ", k>>

\* faulty variant: the exists() test is dropped
ExistsUnchecked(n) == n \in CyqFiles

\* (video_path.parent / f"CYQ_{n:04d}.MP4").exists()
Exists(n) == n \in CyqFiles /\ native[n] > 0

\* a whole number of frames as a fixed-point frame count
Frames(n) == n * Sub

\* scene.frame_end before blender_main assigns it
Unset == 0 - 1


-----------------------------------------------------------------------------
(* Placement: insert_movie *)

\* One strip of the sequencer.  frame_start, frame_offset_start and
\* frame_final_duration are counts of 1/Sub frames, as assigned.
Strip(type, video_filename, frame_start, frame_offset_start, frame_final_duration, channel) ==
    [type |-> type, name |-> video_filename, frame_start |-> frame_start,
     frame_offset_start |-> frame_offset_start,
     frame_final_duration |-> frame_final_duration, channel |-> channel]

\* v_sequence.frame_final_duration right after new_movie: the file's native
\* duration
frame_duration_original(video_filename) == Frames(native[video_filename])

\* the correction of insert_movie
corrected_duration(frame_final_duration, original, frame_offset_start) ==
    Min(frame_final_duration, original - frame_offset_start)

\* insert_movie.  The host's new_movie raises when it cannot open the file;
\* otherwise a movie strip on channel+1 and a sound strip on channel are
\* created and given the same frame_start, frame_offset_start and corrected
\* frame_final_duration.
insert_movie(video_filename, frame_start, frame_offset_start, frame_final_duration, channel) ==
    IF native[video_filename] = 0
    THEN [raised |-> TRUE, strips |-> <<>>, original |-> 0]
    ELSE LET original == frame_duration_original(video_filename)
             final == corrected_duration(frame_final_duration, original,
                                         frame_offset_start)
         IN [raised |-> FALSE,
             strips |-> <<Strip("movie", video_filename, frame_start,
                                frame_offset_start, final, channel + 1),
                          Strip("sound", video_filename, frame_start,
                                frame_offset_start, final, channel)>>,
             original |-> original]

-----------------------------------------------------------------------------
(* Placement: add_incident_to_timeline.  context_before, context_after and
   fps are passed through unchanged from blender_main, so the operators read
   the variables. *)

\* max(0, context_before - beep_timestamp) * fps
shortfall(beep_timestamp) == Max(0, context_before - beep_timestamp) * fps

\* max(0, beep_timestamp - context_before) * fps
lead(beep_timestamp) == Max(0, beep_timestamp - context_before) * fps

\* faulty variant: no gap is left for the predecessor clip
primary_frame_start_no_gap(beep_timestamp, start_frame) ==
    PyInt(start_frame - lead(beep_timestamp))

\* arguments of the primary insert_movie call
primary_frame_start(beep_timestamp, start_frame) ==
    PyInt(start_frame + shortfall(beep_timestamp) - lead(beep_timestamp))

primary_frame_offset_start(beep_timestamp) == PyInt(lead(beep_timestamp))

primary_frame_final_duration(beep_timestamp) ==
    PyInt((Min(context_before, beep_timestamp) + context_after) * fps)

\* int(video_path.stem.split('_')[1]): parts[1] does not exist when the stem
\* has no '_' (IndexError)
video_id_raises(video_filename) == Len(StemParts(video_filename)) < 2

video_id(video_filename) == StemParts(video_filename)[2]

\* the predecessor clip
prev_wanted(beep_timestamp) == beep_timestamp < context_before

prev_frame_final_duration(beep_timestamp) ==
    (context_before - beep_timestamp) * fps

prev_frame_start(start_frame, frame_final_duration) ==
    start_frame - frame_final_duration

prev_frame_offset_start(original, frame_final_duration) ==
    original - frame_final_duration

\* the successor clip
next_wanted(beep_timestamp, original) ==
    beep_timestamp * fps > original - context_after * fps

frame_remaining_context(beep_timestamp, original) ==
    PyInt(context_after * fps - (original - beep_timestamp * fps))

next_frame_start(start_frame, remaining) ==
    PyInt(start_frame + context_before * fps + context_after * fps - remaining)

\* bookkeeping for the properties: which incident and which call made a strip
Tag(strips, incident, role) ==
    [k \in 1..Len(strips) |->
        [type |-> strips[k].type, name |-> strips[k].name,
         frame_start |-> strips[k].frame_start,
         frame_offset_start |-> strips[k].frame_offset_start,
         frame_final_duration |-> strips[k].frame_final_duration,
         channel |-> strips[k].channel,
         incident |-> incident, role |-> role]]

\* (an exception of a later insert_movie leaves the strips made before it)
\* add_incident_to_timeline: the strips it creates, and whether it raised
add_incident_to_timeline(video_filename, beep_timestamp, start_frame, channel, incident) ==
    LET primary == insert_movie(video_filename,
                       primary_frame_start(beep_timestamp, start_frame),
                       primary_frame_offset_start(beep_timestamp),
                       primary_frame_final_duration(beep_timestamp),
                       channel)
    IN IF primary.raised THEN [raised |-> TRUE, strips |-> <<>>]
       ELSE IF video_id_raises(video_filename)
       THEN [raised |-> TRUE, strips |-> Tag(primary.strips, incident, "primary")]
       ELSE
       LET id == video_id(video_filename)
           original == primary.original
           ffd == prev_frame_final_duration(beep_timestamp)
           prev == IF prev_wanted(beep_timestamp) /\ Exists(id - 1)
                   THEN insert_movie(id - 1,
                            prev_frame_start(start_frame, ffd),
                            prev_frame_offset_start(original, ffd),
                            ffd, channel)
                   ELSE [raised |-> FALSE, strips |-> <<>>]
           remaining == frame_remaining_context(beep_timestamp, original)
           next == IF next_wanted(beep_timestamp, original) /\ Exists(id + 1)
                   THEN insert_movie(id + 1,
                            next_frame_start(start_frame, remaining),
                            0, remaining, channel)
                   ELSE [raised |-> FALSE, strips |-> <<>>]
       IN IF prev.raised
          THEN [raised |-> TRUE, strips |-> Tag(primary.strips, incident, "primary")]
          ELSE [raised |-> next.raised,
                strips |-> Tag(primary.strips, incident, "primary")
                           \o Tag(prev.strips, incident, "prev")
                           \o Tag(next.strips, incident, "next")]

-----------------------------------------------------------------------------
(* Placement: blender_main *)

\* sorted(incident_times_by_video.keys())
RECURSIVE sorted(_)
sorted(S) ==
    IF S = {} THEN <<>>
    ELSE LET m == CHOOSE x \in S : \A y \in S : x <= y
         IN <<m>> \o sorted(S \ {m})

\* the (video_filename, beep_timestamp) pairs in the order the nested loops
\* of blender_main visit them
RECURSIVE visit(_, _)
visit(catalog, keys) ==
    IF keys = <<>> THEN <<>>
    ELSE [k \in 1..Len(catalog[Head(keys)]) |->
             [video_filename |-> Head(keys),
              beep_timestamp |-> catalog[Head(keys)][k]]]
         \o visit(catalog, Tail(keys))

Visitation == visit(incident_times_by_video, sorted(DOMAIN incident_times_by_video))

\* int(i_incident * (context_before + context_after) * fps)
slot_frame(i) == PyInt(i * (context_before + context_after) * fps)

\* faulty variant: every incident gets channel 1
incident_channel_fixed(i) == 1

\* channel=1 + (i_incident % 2) * 2
incident_channel(i) == 1 + (i % 2) * 2

\* `if len(incident_times_by_video) == 0: return`, else enter the loops
LoadIncidents ==
    /\ pc = "start"
    /\ pc' = IF DOMAIN incident_times_by_video = {} THEN "returned" ELSE "loop"
    /\ UNCHANGED <<context_before, context_after, fps, incident_times_by_video,
                   native, i_incident, sequences, frame_end>>
    /\ UNCHANGED dvars

\* one iteration of the inner loop: add_incident_to_timeline and i_incident += 1;
\* an exception leaves the loops and ends the script
AddIncident ==
    /\ pc = "loop"
    /\ i_incident < Len(Visitation)
    /\ LET inc == Visitation[i_incident + 1]
           r == add_incident_to_timeline(inc.video_filename, inc.beep_timestamp,
                    slot_frame(i_incident), incident_channel(i_incident),
                    i_incident)
       IN /\ sequences' = sequences \o r.strips
          /\ i_incident' = IF r.raised THEN i_incident ELSE i_incident + 1
          /\ pc' = IF r.raised THEN "raised" ELSE "loop"
    /\ UNCHANGED <<context_before, context_after, fps, incident_times_by_video,
                   native, frame_end>>
    /\ UNCHANGED dvars

\* after the loops: scene.frame_end = int(i_incident * (cb + ca) * fps)
SetFrameEnd ==
    /\ pc = "loop"
    /\ i_incident = Len(Visitation)
    /\ frame_end' = slot_frame(i_incident)
    /\ pc' = "done"
    /\ UNCHANGED <<context_before, context_after, fps, incident_times_by_video,
                   native, i_incident, sequences>>
    /\ UNCHANGED dvars


-----------------------------------------------------------------------------------------------------------------------------------------------------
(* Initial states *)

\* sequences over S of length <= n
SeqsUpTo(S, n) == UNION {[1..k -> S] : k \in 0..n}

\* a flat list of (file, timestamp) pairs grouped into the JSON mapping:
\* file -> the list of its timestamps, in list order
RECURSIVE times_of(_, _)
times_of(flat, f) ==
    IF flat = <<>> THEN <<>>
    ELSE (IF Head(flat)[1] = f THEN <<Head(flat)[2]>> ELSE <<>>)
         \o times_of(Tail(flat), f)

Grouped(flat) ==
    [f \in {flat[k][1] : k \in 1..Len(flat)} |-> times_of(flat, f)]

\* The catalogs drawn: every mapping from files of `files` to non-empty,
\* strictly ascending lists of timestamps of `times` (find_triple_beeps
\* returns times in strictly ascending order) with at most MaxIncidents
\* incidents in all.  BAD.MP4 lists at most one incident: its first one ends
\* the run, so further ones would never be visited.
Catalogs(files, times) ==
    {Grouped(flat) : flat \in
        {s \in SeqsUpTo(files \X times, MaxIncidents) :
            /\ \A k \in 1..(Len(s) - 1) :
                  \/ s[k][1] < s[k + 1][1]
                  \/ s[k][1] = s[k + 1][1] /\ s[k][2] < s[k + 1][2]
            /\ \A k \in 2..Len(s) : s[k][1] # BadFile}}

\* every timestamp lies inside its file when the file is on disk (it is a
\* time of the file's own audio track)
Inside(catalog, disk, rate) ==
    \A f \in DOMAIN catalog : \A k \in 1..Len(catalog[f]) :
        disk[f] > 0 => catalog[f][k] * rate < Frames(disk[f])

\* files whose incidents are listed: BAD.MP4 and CYQ_0002.MP4
ListedFiles == {BadFile, 2}

\* small-scale runs: one frame per second, every duration up to MaxDuration
\* frames, every timestamp on the 1/Sub-second grid
SmallCatalogs == Catalogs(ListedFiles, 0..(Frames(MaxDuration) - 1))

InitSmall ==
    /\ fps = 1
    /\ context_before \in Sub..MaxContext
    /\ context_after \in Sub..MaxContext
    /\ native \in [Files -> 0..MaxDuration]
    /\ native[BadFile] = MaxDuration
    /\ incident_times_by_video \in SmallCatalogs
    /\ Inside(incident_times_by_video, native, fps)

\* runs at the defaults --context-before 14, --context-after 5 and a video of
\* 30 frames per second; files of 60 and of 9000 frames (2 s and 300 s);
\* timestamps 1/Sub, 2/Sub and 3/Sub s (incidents of one chain of beeps),
\* 5 s, 20 s and 297 s
ExamplePolicy == [context_before |-> 14, context_after |-> 5, fps |-> 30]

ExampleDurations == {0, 60, 9000}

ExampleTimes == {1, 2, 3, 5 * Sub, 20 * Sub, 297 * Sub}

ExampleCatalogs == Catalogs(ListedFiles, ExampleTimes)

InitExample ==
    /\ fps = ExamplePolicy.fps
    /\ context_before = ExamplePolicy.context_before * Sub
    /\ context_after = ExamplePolicy.context_after * Sub
    /\ native \in [Files -> ExampleDurations]
    /\ native[BadFile] = 9000
    /\ incident_times_by_video \in ExampleCatalogs
    /\ Inside(incident_times_by_video, native, fps)

InitPlacement ==
    /\ InitSmall \/ InitExample
    /\ i_incident = 0
    /\ sequences = <<>>
    /\ frame_end = Unset
    /\ pc = "start"

IdleDetection ==
    /\ peak_times = <<>>
    /\ td_min = 0
    /\ td_max = 0
    /\ triple_beeps = <<>>
    /\ dpc = "idle"

Init == InitPlacement /\ IdleDetection

Next == LoadIncidents \/ AddIncident \/ SetFrameEnd

Spec == Init /\ [][Next]_vars


-----------------------------------------------------------------------------
(* Detection run *)

IdlePlacement ==
    /\ context_before = 0
    /\ context_after = 0
    /\ fps = 1
    /\ incident_times_by_video = <<>>
    /\ native = [f \in Files |-> 0]
    /\ i_incident = 0
    /\ sequences = <<>>
    /\ frame_end = Unset
    /\ pc = "idle"

\* every strictly ascending peak list within the bounds under every window
\* td_min <= td_max within the bounds, and the example list under the
\* window of process_video
InitDetection ==
    /\ \/ /\ peak_times \in PeakLists
          /\ td_min \in 1..MaxGap
          /\ td_max \in td_min..MaxGap
       \/ /\ peak_times = ExamplePeaks
          /\ td_min = TdMinDefault
          /\ td_max = TdMaxDefault
    /\ triple_beeps = <<>>
    /\ dpc = "start"

\* triple_beep_times = find_triple_beeps(peak_times, td_min, td_max)
Detect ==
    /\ dpc = "start"
    /\ triple_beeps' = find_triple_beeps(peak_times, td_min, td_max)
    /\ dpc' = "done"
    /\ UNCHANGED <<peak_times, td_min, td_max>>
    /\ UNCHANGED pvars

InitDetect == InitDetection /\ IdlePlacement

NextDetect == Detect

SpecDetect == InitDetect /\ [][NextDetect]_vars

-----------------------------------------------------------------------------
(* C1, C2: find_triple_beeps *)

\* both gaps around pulse j (1-based, the middle pulse of the triplet
\* j-1, j, j+1) lie in the inclusive window
GapsQualify(j) ==
    /\ j - 1 >= 1
    /\ j + 1 <= Len(peak_times)
    /\ td_min <= peak_times[j] - peak_times[j - 1]
    /\ peak_times[j] - peak_times[j - 1] <= td_max
    /\ td_min <= peak_times[j + 1] - peak_times[j]
    /\ peak_times[j + 1] - peak_times[j] <= td_max

\* the 1-based positions of the middle pulses of the qualifying triplets
Qualifying == {j \in 1..Len(peak_times) : GapsQualify(j)}

\* C1 as stated: every returned timestamp is the time of the third (latest)
\* pulse of a triplet whose two gaps lie in the window, and the example list
\* [0, 0.08, 0.16, 1.0] under [0.06, 0.12] yields exactly one incident, at 0.16.
C1_ThirdPulse ==
    dpc = "done" =>
        /\ \A k \in 1..Len(triple_beeps) :
              \E j \in Qualifying : triple_beeps[k] = peak_times[j + 1]
        /\ (peak_times = ExamplePeaks /\ td_min = TdMinDefault /\ td_max = TdMaxDefault)
              => triple_beeps = <<16>>

\* C1 amended: every returned timestamp is the time of the second (middle)
\* pulse of a triplet of consecutive pulses whose two gaps lie in the window,
\* and the example list yields exactly one incident, at 0.08.
C1_MiddlePulse ==
    dpc = "done" =>
        /\ \A k \in 1..Len(triple_beeps) :
              \E j \in Qualifying : triple_beeps[k] = peak_times[j]
        /\ (peak_times = ExamplePeaks /\ td_min = TdMinDefault /\ td_max = TdMaxDefault)
              => triple_beeps = <<8>>

\* C1 witness: the example list has been scanned and an incident returned
C1_Witness ==
    /\ dpc = "done"
    /\ peak_times = ExamplePeaks
    /\ td_min = TdMinDefault
    /\ td_max = TdMaxDefault
    /\ Len(triple_beeps) = 1

\* C2: the result holds exactly one incident per qualifying index, in
\* ascending index order and without deduplication: its length is the number
\* of qualifying indices and its k-th element is the pulse at the k-th
\* smallest qualifying index; so fewer than 3 pulses give no incident.
C2_OnePerQualifyingIndex ==
    dpc = "done" =>
        /\ Len(triple_beeps) = Cardinality(Qualifying)
        /\ \A k \in 1..Len(triple_beeps) :
              \E j \in Qualifying :
                  /\ Cardinality({q \in Qualifying : q < j}) = k - 1
                  /\ triple_beeps[k] = peak_times[j]
        /\ Len(peak_times) < 3 => triple_beeps = <<>>

\* C2 witness: a chain of four or more qualifying pulses gave two incidents
\* at adjacent indices
C2_Witness ==
    /\ dpc = "done"
    /\ Len(triple_beeps) >= 2
    /\ \E j \in Qualifying : j + 1 \in Qualifying


-----------------------------------------------------------------------------
(* Vocabulary of the placement properties *)

\* number of incidents in the catalog
NIncidents == Len(Visitation)

\* incident j (0-based, in visitation order): its file and its timestamp
FileOf(j) == Visitation[j + 1].video_filename

TimeOf(j) == Visitation[j + 1].beep_timestamp

\* positions in `sequences` of the strips a call for incident j made
StripsOf(j, role) ==
    {k \in 1..Len(sequences) : sequences[k].incident = j /\ sequences[k].role = role}

\* first timeline frame a strip occupies, and the frame after its last one
\* (insert_movie's docstring: frame_start is the value before
\* frame_offset_start is added)
FirstFrame(s) == s.frame_start + s.frame_offset_start

EndFrame(s) == s.frame_start + s.frame_offset_start + s.frame_final_duration

\* add_incident_to_timeline has returned for incident j
Completed(j) == j < i_incident

\* a fixed-point frame count is a whole number of frames
Whole(x) == x % Sub = 0

\* the largest whole number of frames <= x
FloorFrames(x) == x - (x % Sub)

\* slot_start of incident j: j * (context_before + context_after) * fps,
\* rounded down to a whole frame
SlotStart(j) == FloorFrames(j * (context_before + context_after) * fps)

IsExampleRun ==
    /\ fps = ExamplePolicy.fps
    /\ context_before = ExamplePolicy.context_before * Sub
    /\ context_after = ExamplePolicy.context_after * Sub

-----------------------------------------------------------------------------
(* C3: where the primary clip starts *)

-----------------------------------------------------------------------------
(* C4: clips of different incidents on one channel *)

\* C4 as stated: no two strips of different incidents on the same channel
\* occupy a common timeline frame.
C4_NoOverlapAcrossIncidents ==
    \A a, b \in 1..Len(sequences) :
        (/\ sequences[a].incident # sequences[b].incident
         /\ sequences[a].channel = sequences[b].channel)
        => ~(Max(FirstFrame(sequences[a]), FirstFrame(sequences[b]))
                < Min(EndFrame(sequences[a]), EndFrame(sequences[b])))


-----------------------------------------------------------------------------
(* C5, C6: the predecessor clip *)

\* the file with the immediately preceding / following numeric ID is on disk
HasPrev(j) == (FileOf(j) - 1) \in CyqFiles /\ native[FileOf(j) - 1] > 0

HasNext(j) == (FileOf(j) + 1) \in CyqFiles /\ native[FileOf(j) + 1] > 0

\* incident j's own file is on disk and its name carries a numeric ID
OwnFileOk(j) == FileOf(j) \in CyqFiles /\ native[FileOf(j)] > 0

\* the lead-in missing from incident j's own file, (context_before - t) * fps
MissingLeadIn(j) == (context_before - TimeOf(j)) * fps

\* the context window of incident j runs past the end of its own file
OverrunsEnd(j) ==
    TimeOf(j) * fps > Frames(native[FileOf(j)]) - context_after * fps

\* C5 as stated: whenever timestamp < context_before and the preceding file
\* exists, the predecessor clip lasts exactly (context_before - timestamp) *
\* fps frames and the frame after its last one is the first frame of the
\* incident's primary clip.
C5_PredecessorAbutsPrimary ==
    \A j \in 0..(NIncidents - 1) :
        (Completed(j) /\ OwnFileOk(j) /\ TimeOf(j) < context_before /\ HasPrev(j)) =>
            \A p \in StripsOf(j, "prev") : \A q \in StripsOf(j, "primary") :
                /\ sequences[p].frame_final_duration = MissingLeadIn(j)
                /\ EndFrame(sequences[p]) = FirstFrame(sequences[q])

\* C6 as stated: the predecessor clip's frame_offset_start is the predecessor
\* file's own native duration minus the missing lead-in frames.
C6_PredecessorTail ==
    \A j \in 0..(NIncidents - 1) :
        (Completed(j) /\ OwnFileOk(j)) =>
            \A p \in StripsOf(j, "prev") :
                sequences[p].frame_offset_start =
                    Frames(native[FileOf(j) - 1]) - MissingLeadIn(j)

-----------------------------------------------------------------------------
(* C7: the successor clip *)

\* C7 as stated: whenever the context window runs past the end of the
\* incident's file and the following file exists, a successor clip is made
\* with frame_offset_start 0 whose first frame is the frame after the last
\* frame of the incident's primary clip.
C7_SuccessorAbutsPrimary ==
    \A j \in 0..(NIncidents - 1) :
        (Completed(j) /\ OwnFileOk(j) /\ OverrunsEnd(j) /\ HasNext(j)) =>
            /\ StripsOf(j, "next") # {}
            /\ \A n \in StripsOf(j, "next") : \A q \in StripsOf(j, "primary") :
                  /\ sequences[n].frame_offset_start = 0
                  /\ FirstFrame(sequences[n]) = EndFrame(sequences[q])

-----------------------------------------------------------------------------
(* C8: errors *)

\* the primary clip of incident j is on the timeline
Placed(j) == StripsOf(j, "primary") # {}

\* C8 as stated: when placing an incident fails (its file cannot be opened,
\* or its name has no numeric ID), every later incident is still placed and
\* scene.frame_end is set.  An exception ends the script, so the state with
\* pc = "raised" is the run's last.
C8_ErrorsScopedPerIncident ==
    pc = "raised" =>
        /\ \A j \in (i_incident + 1)..(NIncidents - 1) : Placed(j)
        /\ frame_end # Unset

-----------------------------------------------------------------------------
(* C9: missing neighbour files *)

\* add_incident_to_timeline was called for incident j and raised
Raised(j) == pc = "raised" /\ j = i_incident

\* C9: for an incident whose own file is on disk, when the lead-in is missing
\* (timestamp < context_before) and the preceding file does not exist, or
\* the window runs past the file's end and the following file does not
\* exist, add_incident_to_timeline does not raise, makes the primary clip
\* and makes no clip for that side.
C9_MissingNeighbourTruncates ==
    \A j \in 0..(NIncidents - 1) :
        LET noPrev == TimeOf(j) < context_before /\ ~HasPrev(j)
            noNext == OverrunsEnd(j) /\ ~HasNext(j)
        IN (OwnFileOk(j) /\ (noPrev \/ noNext)) =>
              /\ ~Raised(j)
              /\ Completed(j) =>
                    /\ Cardinality(StripsOf(j, "primary")) = 2
                    /\ noPrev => StripsOf(j, "prev") = {}
                    /\ noNext => StripsOf(j, "next") = {}

\* C9 witness: an incident with a missing lead-in and an overrun end, neither
\* neighbour file on disk, has been placed
C9_Witness ==
    \E j \in 0..(NIncidents - 1) :
        /\ Completed(j)
        /\ OwnFileOk(j)
        /\ TimeOf(j) < context_before /\ ~HasPrev(j)
        /\ OverrunsEnd(j) /\ ~HasNext(j)
        /\ Placed(j)

-----------------------------------------------------------------------------
(* C10: the source range of a clip *)

\* C10 as stated: every strip's source range is non-empty and lies inside
\* its own file: frame_offset_start >= 0, frame_final_duration > 0 and
\* frame_offset_start + frame_final_duration <= native duration.
C10_SourceRangeInsideFile ==
    \A k \in 1..Len(sequences) :
        /\ sequences[k].frame_offset_start >= 0
        /\ sequences[k].frame_final_duration > 0
        /\ sequences[k].frame_offset_start + sequences[k].frame_final_duration
               <= Frames(native[sequences[k].name])


-----------------------------------------------------------------------------
(* C11: channels *)

\* the channels the strips of incident j are on
ChannelsOf(j) ==
    {sequences[k].channel : k \in {n \in 1..Len(sequences) : sequences[n].incident = j}}

\* C11: every strip of the incident with index j (primary, predecessor and
\* successor clip alike) is on the pair {c, c+1} with c = 1 + 2 * (j mod 2),
\* the sound strip on c and the movie strip on c+1; so the strips of two
\* incidents consecutive in visitation order share no channel, and the pairs
\* alternate between {1,2} and {3,4}.
C11_ChannelPairsAlternate ==
    /\ \A k \in 1..Len(sequences) :
          LET j == sequences[k].incident
              c == IF j % 2 = 0 THEN 1 ELSE 3
          IN /\ sequences[k].type = "sound" => sequences[k].channel = c
             /\ sequences[k].type = "movie" => sequences[k].channel = c + 1
    /\ \A j \in 0..(NIncidents - 2) :
          /\ ChannelsOf(j) \cap ChannelsOf(j + 1) = {}
          /\ (ChannelsOf(j) # {} /\ ChannelsOf(j + 1) # {}) =>
                \/ ChannelsOf(j) = {1, 2} /\ ChannelsOf(j + 1) = {3, 4}
                \/ ChannelsOf(j) = {3, 4} /\ ChannelsOf(j + 1) = {1, 2}

\* C11 witness: three incidents are placed, the second one with a
\* predecessor or successor clip beside its primary clip, on the pairs
\* {1,2}, {3,4} and {1,2}
C11_Witness ==
    /\ Completed(2)
    /\ StripsOf(1, "prev") \cup StripsOf(1, "next") # {}
    /\ ChannelsOf(0) = {1, 2}
    /\ ChannelsOf(1) = {3, 4}
    /\ ChannelsOf(2) = {1, 2}

====
